---- MODULE Spec2Model ----
(***************************************************************************)
(* A model of cbl: the scanner (src/src/scanner.rs), the recursive-descent *)
(* parser (src/src/parser.rs) and the tree-walking interpreter             *)
(* (src/src/interpreter.rs), with the token and value types of             *)
(* src/src/token.rs, the tree types of src/src/ast.rs and the error type   *)
(* of src/src/error.rs.                                                    *)
(*                                                                         *)
(* Three specifications share the variables:                               *)
(*   SpecScan    Scanner::new(source) followed by scan_tokens, one step    *)
(*               per iteration of the scanning loop;                       *)
(*   SpecParse   Parser::new(tokens) followed by parse, one step per       *)
(*               iteration of the statement loop;                          *)
(*   SpecInterp  Interpreter::interpret(statements), one step per          *)
(*               statement.                                                *)
(*                                                                         *)
(* Abstractions: an f64 is an exact rational num/den (den = 0 encodes      *)
(* +inf, -inf and NaN; the sign of zero is not kept); a Rust panic is the  *)
(* control state "panicked".                                               *)
(***************************************************************************)
EXTENDS Integers, Sequences, FiniteSets, TLC

VARIABLES
    pc,          \* control position of the call being modelled
    scanner,     \* struct Scanner: source, tokens, start, current, line
    parser,      \* struct Parser: tokens, current
    statements,  \* parse: the local `statements`; interpret: its argument
    caught,      \* parse: the errors the Err(e) arm has received so far
    ip,          \* interpret: number of loop iterations entered
    value,       \* interpret: result of the last call of evaluate
    stdout,      \* lines written with println!
    stderr,      \* lines written with eprintln!
    result,      \* what the modelled call returned
    returned     \* scan_tokens: the token lists its calls have returned so far

vars ==
    <<pc, scanner, parser, statements, caught, ip, value, stdout, stderr, result, returned>>

(***************************************************************************)
(* Bounds                                                                  *)
(***************************************************************************)
MaxSrcLen == 4

(***************************************************************************)
(* token.rs: Object                                                        *)
(***************************************************************************)
Nil == [tag |-> "Nil"]

Bool(b) == [tag |-> "Bool", b |-> b]

String(s) == [tag |-> "String", s |-> s]

Abs(i) == IF i < 0 THEN -i ELSE i

RECURSIVE Gcd(_, _)
Gcd(a, b) == IF b = 0 THEN a ELSE Gcd(b, a % b)

\* an f64 as a rational in lowest terms; den = 0: num = 1 is +inf,
\* num = -1 is -inf and num = 0 is NaN
Number(n, d) ==
    IF d = 0
    THEN [tag |-> "Number", num |-> (IF n > 0 THEN 1 ELSE IF n < 0 THEN -1 ELSE 0), den |-> 0]
    ELSE LET s == IF d < 0 THEN -1 ELSE 1
             g == Gcd(Abs(n), Abs(d))
         IN [tag |-> "Number", num |-> (s * n) \div g, den |-> (s * d) \div g]

IsNaN(x) == x.den = 0 /\ x.num = 0

\* f64 arithmetic and comparison on the rational encoding (IEEE rules for
\* the infinities and NaN)
NumAdd(x, y) ==
    IF x.den = 0 /\ y.den = 0
    THEN (IF x.num = y.num THEN x ELSE Number(0, 0))
    ELSE IF x.den = 0 THEN x
    ELSE IF y.den = 0 THEN y
    ELSE Number(x.num * y.den + y.num * x.den, x.den * y.den)

NumNeg(x) == [x EXCEPT !.num = -@]

NumSub(x, y) == NumAdd(x, NumNeg(y))

NumMul(x, y) ==
    IF x.den = 0 \/ y.den = 0
    THEN Number(x.num * y.num, 0)
    ELSE Number(x.num * y.num, x.den * y.den)

NumDiv(x, y) ==
    IF IsNaN(x) \/ IsNaN(y) THEN Number(0, 0)
    ELSE IF y.den = 0 THEN (IF x.den = 0 THEN Number(0, 0) ELSE Number(0, 1))
    ELSE IF x.den = 0 THEN Number(IF y.num < 0 THEN -x.num ELSE x.num, 0)
    ELSE Number(x.num * y.den, x.den * y.num)

NumEq(x, y) == ~IsNaN(x) /\ ~IsNaN(y) /\ x.num = y.num /\ x.den = y.den

NumLess(x, y) ==
    /\ ~IsNaN(x)
    /\ ~IsNaN(y)
    /\ IF x.den = 0 THEN x.num < 0 /\ ~(y.den = 0 /\ y.num < 0)
       ELSE IF y.den = 0 THEN y.num > 0
       ELSE x.num * y.den < y.num * x.den

\* impl Display for Object.  A number that is an integer prints as its
\* decimal digits; the digits of a fraction are not expanded.
Display(o) ==
    CASE o.tag = "Nil" -> "nil"
      [] o.tag = "Bool" -> (IF o.b THEN "true" ELSE "false")
      [] o.tag = "String" -> o.s
      [] o.tag = "Number" ->
            IF o.den = 1 THEN ToString(o.num)
            ELSE IF o.den = 0
                 THEN (IF o.num > 0 THEN "inf" ELSE IF o.num < 0 THEN "-inf" ELSE "NaN")
            ELSE ToString(o.num) \o "/" \o ToString(o.den)

(***************************************************************************)
(* token.rs: Token                                                         *)
(***************************************************************************)
Token(type_, lexeme, literal, line) ==
    [type_ |-> type_, lexeme |-> lexeme, literal |-> literal, line |-> line]

(***************************************************************************)
(* error.rs                                                                *)
(***************************************************************************)
Ok(v) == [ok |-> TRUE, v |-> v]

Err(e) == [ok |-> FALSE, e |-> e]

Error_parser_error(message) == [kind |-> "ParserError", message |-> message]

Error_runtime_error(message) == [kind |-> "RuntimeError", message |-> message]

\* eprintln! of one diagnostic line appended to the error channel
report(err, line, where_, message) ==
    Append(err, "[line " \o ToString(line) \o "] Error " \o where_ \o ": " \o message)

parser_error(err, token, message) ==
    IF token.type_ = "Eof"
    THEN report(err, token.line, " at end", message)
    ELSE report(err, token.line, " at '" \o token.lexeme \o "'", message)

Unit == [tag |-> "Unit"]

Pending == [state |-> "pending"]

Panicked == [state |-> "panicked"]

(***************************************************************************)
(* scanner.rs.  The source is a sequence of characters; a character of     *)
(* MultiByte takes two bytes in UTF-8, every other one takes one.  The     *)
(* scanner's start and current are byte offsets when it slices and tests   *)
(* for the end, and character indices when it reads with chars().nth.      *)
(***************************************************************************)
MultiByte == {"U+00E9"}

Digits == {"0", "1", "2", "3", "4", "5", "6", "7", "8", "9"}

Letters ==
    {"a", "b", "c", "d", "e", "f", "g", "h", "i", "j", "k", "l", "m",
     "n", "o", "p", "q", "r", "s", "t", "u", "v", "w", "x", "y", "z",
     "A", "B", "C", "D", "E", "F", "G", "H", "I", "J", "K", "L", "M",
     "N", "O", "P", "Q", "R", "S", "T", "U", "V", "W", "X", "Y", "Z", "_"}

\* Option<char>::None, the '\0' of peek, and a failed unwrap
None == "None"

NUL == "NUL"

PANIC == "PANIC"

len_utf8(c) == IF c \in MultiByte THEN 2 ELSE 1

RECURSIVE len(_)
len(source) ==
    IF source = <<>> THEN 0 ELSE len_utf8(Head(source)) + len(Tail(source))

chars_nth(source, n) == IF n < Len(source) THEN source[n + 1] ELSE None

is_char_boundary(source, i) ==
    \E k \in 0..Len(source) : len(SubSeq(source, 1, k)) = i

\* &source[a..b]: the characters between two byte offsets, or <<PANIC>>
slice(source, a, b) ==
    IF a <= b /\ b <= len(source) /\ is_char_boundary(source, a) /\ is_char_boundary(source, b)
    THEN LET ka == CHOOSE k \in 0..Len(source) : len(SubSeq(source, 1, k)) = a
             kb == CHOOSE k \in 0..Len(source) : len(SubSeq(source, 1, k)) = b
         IN SubSeq(source, ka + 1, kb)
    ELSE <<PANIC>>

RECURSIVE to_string(_)
to_string(chars) ==
    IF chars = <<>> THEN "" ELSE Head(chars) \o to_string(Tail(chars))

DigitVal(c) ==
    CASE c = "0" -> 0 [] c = "1" -> 1 [] c = "2" -> 2 [] c = "3" -> 3 [] c = "4" -> 4
      [] c = "5" -> 5 [] c = "6" -> 6 [] c = "7" -> 7 [] c = "8" -> 8 [] c = "9" -> 9

RECURSIVE DigitsVal(_)
DigitsVal(chars) ==
    IF chars = <<>> THEN 0
    ELSE DigitsVal(SubSeq(chars, 1, Len(chars) - 1)) * 10 + DigitVal(chars[Len(chars)])

RECURSIVE Pow10(_)
Pow10(n) == IF n = 0 THEN 1 ELSE 10 * Pow10(n - 1)

\* the Err of a failed parse::<f64>
NoNumber == [tag |-> "None"]

\* str::parse::<f64> on a slice of digits, '.' and a leading sign:
\* None unless there is at least one digit and at most one '.'
parse_f64(chars) ==
    LET neg == chars # <<>> /\ Head(chars) = "-"
        body == IF chars # <<>> /\ Head(chars) \in {"-", "+"} THEN Tail(chars) ELSE chars
        dots == {i \in 1..Len(body) : body[i] = "."}
        ok == /\ \A i \in 1..Len(body) : body[i] \in Digits \cup {"."}
              /\ Cardinality(dots) <= 1
              /\ \E i \in 1..Len(body) : body[i] \in Digits
    IN IF ~ok THEN NoNumber
       ELSE LET d == IF dots = {} THEN Len(body) + 1 ELSE CHOOSE i \in dots : TRUE
                int == SubSeq(body, 1, d - 1)
                frac == SubSeq(body, d + 1, Len(body))
                n == DigitsVal(int) * Pow10(Len(frac)) + DigitsVal(frac)
            IN Number(IF neg THEN -n ELSE n, Pow10(Len(frac)))

Scanner_new(source) ==
    [source |-> source, tokens |-> <<>>, start |-> 0, current |-> 0, line |-> 1]

\* The execution state of a scanner method: the struct s, the lines
\* printed so far and whether the method has panicked.
is_at_end(s, current) == current >= len(s.source)

is_digit(c) == c \in Digits

is_alpha(c) == c \in Letters

is_alpha_numeric(c) == is_alpha(c) \/ is_digit(c)

advance(m) == [m EXCEPT !.s.current = @ + 1]

\* the Option<char> that the call of advance leading to m returned
advanced(m) == chars_nth(m.s.source, m.s.current - 1)

add_token_literal(m, type_, literal) ==
    LET text == slice(m.s.source, m.s.start, m.s.current)
    IN IF text = <<PANIC>> THEN [m EXCEPT !.panic = TRUE]
       ELSE [m EXCEPT !.s.tokens = Append(@, Token(type_, to_string(text), literal, m.s.line))]

add_token(m, type_) == add_token_literal(m, type_, Nil)

\* match_char: the value returned, and the state it leaves
match_char_hit(m, expected) ==
    /\ ~is_at_end(m.s, m.s.current)
    /\ chars_nth(m.s.source, m.s.current) \in {expected, None}

match_char(m, expected) ==
    IF match_char_hit(m, expected) THEN [m EXCEPT !.s.current = @ + 1] ELSE m

peek(s) ==
    IF is_at_end(s, s.current) THEN NUL
    ELSE IF chars_nth(s.source, s.current) = None THEN PANIC
    ELSE chars_nth(s.source, s.current)

peek_next(s) ==
    IF s.current + 1 >= len(s.source) THEN NUL
    ELSE IF chars_nth(s.source, s.current + 1) = None THEN PANIC
    ELSE chars_nth(s.source, s.current + 1)

\* while self.peek() != '\n' && !self.is_at_end(self.current) { advance }
RECURSIVE comment_loop(_)
comment_loop(m) ==
    LET p == peek(m.s)
    IN IF p = PANIC THEN [m EXCEPT !.panic = TRUE]
       ELSE IF p # "\n" /\ ~is_at_end(m.s, m.s.current) THEN comment_loop(advance(m))
       ELSE m

RECURSIVE string_loop(_)
string_loop(m) ==
    LET p == peek(m.s)
    IN IF p = PANIC THEN [m EXCEPT !.panic = TRUE]
       ELSE IF p # "\"" /\ ~is_at_end(m.s, m.s.current)
            THEN string_loop(advance(IF p = "\n" THEN [m EXCEPT !.s.line = @ + 1] ELSE m))
       ELSE m

string(m) ==
    LET a == string_loop(m)
    IN IF a.panic THEN a
       ELSE IF is_at_end(a.s, a.s.current)
            THEN [a EXCEPT !.out = Append(@, "Unterminated string")]
       ELSE LET b == advance(a)
                v == slice(b.s.source, b.s.start + 1, b.s.current - 1)
            IN IF v = <<PANIC>> THEN [b EXCEPT !.panic = TRUE]
               ELSE add_token_literal(b, "String", String(to_string(v)))

\* while self.is_digit(self.peek()) { advance }
RECURSIVE digit_loop(_)
digit_loop(m) ==
    LET p == peek(m.s)
    IN IF p = PANIC THEN [m EXCEPT !.panic = TRUE]
       ELSE IF is_digit(p) THEN digit_loop(advance(m))
       ELSE m

number(m) ==
    LET a == digit_loop(m)
    IN IF a.panic THEN a
       ELSE LET frac == IF peek(a.s) = "." THEN peek_next(a.s) ELSE NUL
                b == IF frac = PANIC THEN [a EXCEPT !.panic = TRUE]
                     ELSE IF is_digit(frac) THEN digit_loop(advance(a))
                     ELSE a
            IN IF b.panic THEN b
               ELSE LET text == slice(b.s.source, b.s.start, b.s.current)
                        v == IF text = <<PANIC>> THEN NoNumber ELSE parse_f64(text)
                    IN IF v = NoNumber THEN [b EXCEPT !.panic = TRUE]
                       ELSE add_token_literal(b, "Number", v)

RECURSIVE identifier_loop(_)
identifier_loop(m) ==
    LET p == peek(m.s)
    IN IF p = PANIC THEN [m EXCEPT !.panic = TRUE]
       ELSE IF is_alpha(p) \/ is_digit(p) THEN identifier_loop(advance(m))
       ELSE m

Keywords ==
    [s \in {"and", "class", "else", "false", "for", "fun", "if", "nil", "or", "print",
            "return", "super", "this", "true", "var", "while"} |->
        CASE s = "and" -> "And" [] s = "class" -> "Class" [] s = "else" -> "Else"
          [] s = "false" -> "False" [] s = "for" -> "For" [] s = "fun" -> "Fun"
          [] s = "if" -> "If" [] s = "nil" -> "Nil" [] s = "or" -> "Or"
          [] s = "print" -> "Print" [] s = "return" -> "Return" [] s = "super" -> "Super"
          [] s = "this" -> "This" [] s = "true" -> "True" [] s = "var" -> "Var"
          [] s = "while" -> "While"]

identifier(m) ==
    LET a == identifier_loop(m)
    IN IF a.panic THEN a
       ELSE LET text == slice(a.s.source, a.s.start, a.s.current)
            IN IF text = <<PANIC>> THEN [a EXCEPT !.panic = TRUE]
               ELSE add_token(a, IF to_string(text) \in DOMAIN Keywords
                                 THEN Keywords[to_string(text)]
                                 ELSE "Identifier")

SingleChar ==
    [c \in {"(", ")", "{", "}", ",", ".", "-", "+", ";", "*"} |->
        CASE c = "(" -> "LeftParen" [] c = ")" -> "RightParen" [] c = "{" -> "LeftBrace"
          [] c = "}" -> "RightBrace" [] c = "," -> "Comma" [] c = "." -> "Dot"
          [] c = "-" -> "Minus" [] c = "+" -> "Plus" [] c = ";" -> "Semicolon"
          [] c = "*" -> "Star"]

OneOrTwo ==
    [c \in {"!", "=", "<", ">"} |->
        CASE c = "!" -> <<"Bang", "BangEqual">> [] c = "=" -> <<"Equal", "EqualEqual">>
          [] c = "<" -> <<"Less", "LessEqual">> [] c = ">" -> <<"Greater", "GreaterEqual">>]

\* `c as u32` for the character of Alphabet that reaches the last arm
CodePoint(c) == CASE c = "U+00E9" -> 233 [] OTHER -> 0

scan_token(m) ==
    LET a == advance(m)
        c == advanced(a)
    IN CASE c = None -> a
         [] c \in DOMAIN SingleChar -> add_token(a, SingleChar[c])
         [] c \in DOMAIN OneOrTwo ->
                add_token(match_char(a, "="),
                          IF match_char_hit(a, "=") THEN OneOrTwo[c][2] ELSE OneOrTwo[c][1])
         [] c = "/" ->
                IF match_char_hit(a, "/") THEN comment_loop(match_char(a, "/"))
                ELSE add_token(a, "Slash")
         [] c \in {" ", "\r", "\t", "\n"} -> a
         [] c = "\"" -> string(a)
         [] OTHER ->
                IF is_digit(c) THEN number(a)
                ELSE IF is_alpha(c) THEN identifier(a)
                ELSE [a EXCEPT !.out = @ \o <<"Unexpected character: " \o c,
                                               "char value " \o ToString(CodePoint(c))>>]

(***************************************************************************)
(* ast.rs: Expr and Stmt                                                   *)
(***************************************************************************)
Expr_Binary(left, operator, right) ==
    [type |-> "Binary", left |-> left, operator |-> operator, right |-> right]

Expr_Grouping(expression) == [type |-> "Grouping", expression |-> expression]

Expr_Literal(v) == [type |-> "Literal", value |-> v]

Expr_Unary(operator, right) == [type |-> "Unary", operator |-> operator, right |-> right]

Stmt_Expression(expression) == [type |-> "Expression", expression |-> expression]

Stmt_Print(expression) == [type |-> "Print", expression |-> expression]

Stmt_Var(name, initializer) == [type |-> "Var", name |-> name, initializer |-> initializer]

Some(x) == [some |-> TRUE, x |-> x]

NoInitializer == [some |-> FALSE]

(***************************************************************************)
(* parser.rs.  A parser method works on P = [tokens, current, panic]: the  *)
(* struct and whether an index went out of range.  A method that returns   *)
(* a CblResult yields [P |-> the struct it leaves, r |-> Ok(..) or         *)
(* Err(..)]; a panic travels as Err(Unwind) with P.panic set.              *)
(***************************************************************************)
Parser_new(tokens) == [tokens |-> tokens, current |-> 0]

Unwind == [kind |-> "panic", message |-> ""]

\* self.tokens[self.current] is out of range
OutOfRange(P) == P.current >= Len(P.tokens)

p_peek(P) == P.tokens[P.current + 1]

previous(P) == P.tokens[P.current]

p_is_at_end(P) == p_peek(P).type_ = "Eof"

check(P, type_) == IF p_is_at_end(P) THEN FALSE ELSE p_peek(P).type_ = type_

\* advance without the is_at_end test: the cursor moves past Eof
p_advance_PastEof(P) ==
    IF P.panic THEN P
    ELSE IF OutOfRange(P) THEN [P EXCEPT !.panic = TRUE]
    ELSE [P EXCEPT !.current = @ + 1]

\* advance: the state it leaves; the token it returns is previous of that
p_advance(P) ==
    IF P.panic THEN P
    ELSE IF OutOfRange(P) THEN [P EXCEPT !.panic = TRUE]
    ELSE LET q == IF ~p_is_at_end(P) THEN [P EXCEPT !.current = @ + 1] ELSE P
         IN IF q.current = 0 THEN [q EXCEPT !.panic = TRUE] ELSE q

\* match_token: the value returned, and the state it leaves
match_token_hit(P, types) ==
    ~P.panic /\ ~OutOfRange(P) /\ \E i \in 1..Len(types) : check(P, types[i])

match_token(P, types) ==
    IF P.panic THEN P
    ELSE IF OutOfRange(P) THEN [P EXCEPT !.panic = TRUE]
    ELSE IF match_token_hit(P, types) THEN p_advance(P)
    ELSE P

\* a result r (not evaluated after a panic) with the struct the method leaves
Return(P, r) == [P |-> P, r |-> IF P.panic THEN Err(Unwind) ELSE r]

consume(P, type_, message) ==
    IF P.panic THEN Return(P, Err(Unwind))
    ELSE IF OutOfRange(P) THEN Return([P EXCEPT !.panic = TRUE], Err(Unwind))
    ELSE IF check(P, type_) THEN Return(p_advance(P), Ok(previous(p_advance(P))))
    ELSE Return(P, Err(Error_parser_error(message)))

\* `match x { Ok(v) => .., Err(e) => return Err(e) }`: the rest of the
\* method, K, runs on an Ok and an Err is returned as it is
Try(x, K(_)) == IF x.r.ok THEN K(x) ELSE x

\* the state a call of match_token or advance leaves, as a result
Moved(P) == Return(P, Ok(previous(P)))

RECURSIVE expression(_)
RECURSIVE equality(_)
RECURSIVE equality_while(_, _)
RECURSIVE comparison(_)
RECURSIVE comparison_while(_, _)
RECURSIVE term(_)
RECURSIVE term_while(_, _)
RECURSIVE factor(_)
RECURSIVE factor_while(_, _)
RECURSIVE unary(_)
RECURSIVE primary(_)

primary(P) ==
    IF match_token_hit(P, <<"False">>)
    THEN Return(match_token(P, <<"False">>), Ok(Expr_Literal(Bool(FALSE))))
    ELSE IF match_token_hit(P, <<"True">>)
    THEN Return(match_token(P, <<"True">>), Ok(Expr_Literal(Bool(TRUE))))
    ELSE IF match_token_hit(P, <<"Nil">>)
    THEN Return(match_token(P, <<"Nil">>), Ok(Expr_Literal(Nil)))
    ELSE IF match_token_hit(P, <<"Number", "String">>)
    THEN Try(Moved(match_token(P, <<"Number", "String">>)),
             LAMBDA a : Return(a.P, Ok(Expr_Literal(a.r.v.literal))))
    ELSE IF match_token_hit(P, <<"LeftParen">>)
    THEN Try(expression(match_token(P, <<"LeftParen">>)),
             LAMBDA expr :
                Try(consume(expr.P, "RightParen", "Expect ')' after expression."),
                    LAMBDA c : Return(c.P, Ok(Expr_Grouping(expr.r.v)))))
    ELSE Return(match_token(P, <<"LeftParen">>), Err(Error_parser_error("Expect expression.")))

\* unary with the operand parsed by primary: prefix operators do not chain
unary_NoChain(P) ==
    IF match_token_hit(P, <<"Bang", "Minus">>)
    THEN Try(Moved(match_token(P, <<"Bang", "Minus">>)),
             LAMBDA operator :
                Try(primary(operator.P),
                    LAMBDA right : Return(right.P, Ok(Expr_Unary(operator.r.v, right.r.v)))))
    ELSE primary(match_token(P, <<"Bang", "Minus">>))

unary(P) ==
    IF match_token_hit(P, <<"Bang", "Minus">>)
    THEN Try(Moved(match_token(P, <<"Bang", "Minus">>)),
             LAMBDA operator :
                Try(unary(operator.P),
                    LAMBDA right : Return(right.P, Ok(Expr_Unary(operator.r.v, right.r.v)))))
    ELSE primary(match_token(P, <<"Bang", "Minus">>))

factor_while(P, expr) ==
    IF match_token_hit(P, <<"Slash", "Star">>)
    THEN Try(Moved(match_token(P, <<"Slash", "Star">>)),
             LAMBDA operator :
                Try(unary(operator.P),
                    LAMBDA right :
                        factor_while(right.P, Expr_Binary(expr, operator.r.v, right.r.v))))
    ELSE Return(match_token(P, <<"Slash", "Star">>), Ok(expr))

factor(P) == Try(unary(P), LAMBDA expr : factor_while(expr.P, expr.r.v))

\* term_while with the right operand parsed by term: a right fold
term_while_RightFold(P, expr) ==
    IF match_token_hit(P, <<"Minus", "Plus">>)
    THEN Try(Moved(match_token(P, <<"Minus", "Plus">>)),
             LAMBDA operator :
                Try(term(operator.P),
                    LAMBDA right :
                        Return(right.P, Ok(Expr_Binary(expr, operator.r.v, right.r.v)))))
    ELSE Return(match_token(P, <<"Minus", "Plus">>), Ok(expr))

term_while(P, expr) ==
    IF match_token_hit(P, <<"Minus", "Plus">>)
    THEN Try(Moved(match_token(P, <<"Minus", "Plus">>)),
             LAMBDA operator :
                Try(factor(operator.P),
                    LAMBDA right :
                        term_while(right.P, Expr_Binary(expr, operator.r.v, right.r.v))))
    ELSE Return(match_token(P, <<"Minus", "Plus">>), Ok(expr))

term(P) == Try(factor(P), LAMBDA expr : term_while(expr.P, expr.r.v))

comparison_while(P, expr) ==
    IF match_token_hit(P, <<"Greater", "GreaterEqual", "Less", "LessEqual">>)
    THEN Try(Moved(match_token(P, <<"Greater", "GreaterEqual", "Less", "LessEqual">>)),
             LAMBDA operator :
                Try(term(operator.P),
                    LAMBDA right :
                        comparison_while(right.P,
                                         Expr_Binary(expr, operator.r.v, right.r.v))))
    ELSE Return(match_token(P, <<"Greater", "GreaterEqual", "Less", "LessEqual">>), Ok(expr))

comparison(P) == Try(term(P), LAMBDA expr : comparison_while(expr.P, expr.r.v))

\* equality_while that takes '=' for an equality operator as well
equality_while_MatchesEqual(P, expr) ==
    IF match_token_hit(P, <<"BangEqual", "EqualEqual", "Equal">>)
    THEN Try(Moved(match_token(P, <<"BangEqual", "EqualEqual", "Equal">>)),
             LAMBDA operator :
                Try(comparison(operator.P),
                    LAMBDA right :
                        equality_while(right.P, Expr_Binary(expr, operator.r.v, right.r.v))))
    ELSE Return(match_token(P, <<"BangEqual", "EqualEqual", "Equal">>), Ok(expr))

equality_while(P, expr) ==
    IF match_token_hit(P, <<"BangEqual", "EqualEqual">>)
    THEN Try(Moved(match_token(P, <<"BangEqual", "EqualEqual">>)),
             LAMBDA operator :
                Try(comparison(operator.P),
                    LAMBDA right :
                        equality_while(right.P, Expr_Binary(expr, operator.r.v, right.r.v))))
    ELSE Return(match_token(P, <<"BangEqual", "EqualEqual">>), Ok(expr))

equality(P) == Try(comparison(P), LAMBDA expr : equality_while(expr.P, expr.r.v))

expression(P) == equality(P)

\* the three statement methods call consume for ';' and drop what it
\* returns: only the cursor movement and a panic survive the call
print_statement(P) ==
    Try(expression(P),
        LAMBDA value_ :
            Return(consume(value_.P, "Semicolon", "Expect ';' after value.").P,
                   Ok(Stmt_Print(value_.r.v))))

var_declaration(P) ==
    Try(consume(P, "Identifier", "Expect variable name."),
        LAMBDA name :
            IF match_token_hit(name.P, <<"Equal">>)
            THEN Try(expression(match_token(name.P, <<"Equal">>)),
                     LAMBDA init :
                        Return(consume(init.P, "Semicolon",
                                       "Expect ';' after variable declaration.").P,
                               Ok(Stmt_Var(name.r.v, Some(init.r.v)))))
            ELSE Return(consume(match_token(name.P, <<"Equal">>), "Semicolon",
                                "Expect ';' after variable declaration.").P,
                        Ok(Stmt_Var(name.r.v, NoInitializer))))

expression_statement(P) ==
    Try(expression(P),
        LAMBDA expr :
            Return(consume(expr.P, "Semicolon", "Expect ';' after expression.").P,
                   Ok(Stmt_Expression(expr.r.v))))

statement(P) ==
    IF match_token_hit(P, <<"Print">>)
    THEN print_statement(match_token(P, <<"Print">>))
    ELSE expression_statement(match_token(P, <<"Print">>))

declaration(P) ==
    IF match_token_hit(P, <<"Var">>)
    THEN var_declaration(match_token(P, <<"Var">>))
    ELSE statement(match_token(P, <<"Var">>))

StatementStart == {"Class", "Fun", "Var", "For", "If", "While", "Print", "Return"}

RECURSIVE synchronize_while(_)
synchronize_while(P) ==
    IF P.panic THEN P
    ELSE IF OutOfRange(P) THEN [P EXCEPT !.panic = TRUE]
    ELSE IF p_is_at_end(P) THEN P
    ELSE IF P.current = 0 THEN [P EXCEPT !.panic = TRUE]
    ELSE IF previous(P).type_ = "Semicolon" THEN P
    ELSE IF p_peek(P).type_ \in StatementStart THEN P
    ELSE synchronize_while(p_advance(P))

\* synchronize without the advance that discards the errant token
synchronize_NoAdvance(P) == synchronize_while(P)

synchronize(P) == synchronize_while(p_advance(P))

(***************************************************************************)
(* SpecScan: Scanner::new(source); scan_tokens()                           *)
(***************************************************************************)
Alphabet == {"1", ".", "o", "r", "\"", "\n", "/", "=", "U+00E9"}

RECURSIVE SeqsUpTo(_, _)
SeqsUpTo(S, n) ==
    IF n = 0 THEN {<<>>}
    ELSE LET R == SeqsUpTo(S, n - 1)
         IN R \cup {Append(r, x) : r \in {q \in R : Len(q) = n - 1}, x \in S}

NoParser == [tokens |-> <<>>, current |-> 0]

InitScan ==
    /\ pc = "scan_tokens"
    /\ \E source \in SeqsUpTo(Alphabet, MaxSrcLen) : scanner = Scanner_new(source)
    /\ parser = NoParser
    /\ statements = <<>>
    /\ caught = <<>>
    /\ ip = 0
    /\ value = Pending
    /\ stdout = <<>>
    /\ stderr = <<>>
    /\ result = Pending
    /\ returned = <<>>

\* one iteration of the loop of scan_tokens
ScanToken ==
    /\ pc = "scan_tokens"
    /\ ~is_at_end(scanner, scanner.current)
    /\ LET m == scan_token([s |-> [scanner EXCEPT !.start = scanner.current],
                            out |-> stdout, panic |-> FALSE])
       IN /\ scanner' = m.s
          /\ stdout' = m.out
          /\ pc' = IF m.panic THEN "panicked" ELSE "scan_tokens"
          /\ result' = IF m.panic THEN Panicked ELSE result
    /\ UNCHANGED <<parser, statements, caught, ip, value, stderr, returned>>

\* the end of scan_tokens without the push of the Eof token
ScanEof_NoPush ==
    /\ pc = "scan_tokens"
    /\ is_at_end(scanner, scanner.current)
    /\ result' = Ok(scanner.tokens)
    /\ returned' = Append(returned, scanner.tokens)
    /\ pc' = "scanned"
    /\ UNCHANGED <<scanner, parser, statements, caught, ip, value, stdout, stderr>>

\* the end of scan_tokens: push the Eof token and return a clone
ScanEof ==
    /\ pc = "scan_tokens"
    /\ is_at_end(scanner, scanner.current)
    /\ scanner' = [scanner EXCEPT !.tokens = Append(@, Token("Eof", "", Nil, scanner.line))]
    /\ result' = Ok(scanner'.tokens)
    /\ returned' = Append(returned, scanner'.tokens)
    /\ pc' = "scanned"
    /\ UNCHANGED <<parser, statements, caught, ip, value, stdout, stderr>>

MaxCalls == 2

\* a further call of scan_tokens on the same Scanner
ScanAgain ==
    /\ pc = "scanned"
    /\ Len(returned) < MaxCalls
    /\ pc' = "scan_tokens"
    /\ result' = Pending
    /\ UNCHANGED <<scanner, parser, statements, caught, ip, value, stdout, stderr, returned>>

NextScan == ScanToken \/ ScanEof \/ ScanAgain

SpecScan == InitScan /\ [][NextScan]_vars

(***************************************************************************)
(* SpecParse: Parser::new(tokens); parse()                                 *)
(***************************************************************************)
MaxTokens == 4

MaxBad == 3

MaxNum == 4

Lexeme ==
    [t \in {"LeftParen", "RightParen", "Minus", "Plus", "Semicolon", "Slash", "Star",
            "Bang", "BangEqual", "Equal", "EqualEqual", "Greater", "GreaterEqual",
            "Less", "LessEqual", "Print", "Var", "True", "False", "Nil", "Eof"} |->
        CASE t = "LeftParen" -> "(" [] t = "RightParen" -> ")" [] t = "Minus" -> "-"
          [] t = "Plus" -> "+" [] t = "Semicolon" -> ";" [] t = "Slash" -> "/"
          [] t = "Star" -> "*" [] t = "Bang" -> "!" [] t = "BangEqual" -> "!="
          [] t = "Equal" -> "=" [] t = "EqualEqual" -> "==" [] t = "Greater" -> ">"
          [] t = "GreaterEqual" -> ">=" [] t = "Less" -> "<" [] t = "LessEqual" -> "<="
          [] t = "Print" -> "print" [] t = "Var" -> "var" [] t = "True" -> "true"
          [] t = "False" -> "false" [] t = "Nil" -> "nil" [] t = "Eof" -> ""]

\* the tokens the scanner makes of these lexemes on line 1
Tok(type_) == Token(type_, Lexeme[type_], Nil, 1)

NumTok(n) == Token("Number", ToString(n), Number(n, 1), 1)

IdentTok == Token("Identifier", "x", Nil, 1)

TokenAlphabet ==
    {NumTok(1), IdentTok} \cup
    {Tok(t) : t \in {"Minus", "Semicolon", "Print", "Var", "Equal", "LeftParen", "RightParen"}}

BinaryOps ==
    {"BangEqual", "EqualEqual", "Greater", "GreaterEqual", "Less", "LessEqual",
     "Minus", "Plus", "Slash", "Star"}

\* a op b op c ;  and  - a op b op c ;
Chain(a, o1, b, o2, c) ==
    <<NumTok(a), Tok(o1), NumTok(b), Tok(o2), NumTok(c), Tok("Semicolon")>>

\* the chains over the numbers 1..N, plain and with a leading '-'
ChainInputs(N) ==
    LET Plain == {Chain(a, o1, b, o2, c) :
                    a \in 1..N, b \in 1..N, c \in 1..N,
                    o1 \in BinaryOps, o2 \in BinaryOps}
    IN Plain \cup {<<Tok("Minus")>> \o ts : ts \in Plain}

\* statements of the grammar that start with 'print' or 'var'
GoodStatements ==
    {<<Tok("Print"), NumTok(1), Tok("Semicolon")>>,
     <<Tok("Var"), IdentTok, Tok("Semicolon")>>,
     <<Tok("Var"), IdentTok, Tok("Equal"), NumTok(1), Tok("Semicolon")>>}

\* up to k arbitrary tokens followed by one of GoodStatements
RecoveryInputs(k) ==
    {bad \o good : bad \in SeqsUpTo(TokenAlphabet, k), good \in GoodStatements}

MaxPrefix == 3

\* op .. op primary ;  with at most n prefix operators '!' and '-'
PrefixInputs(n) ==
    {ops \o <<prim, Tok("Semicolon")>> :
        ops \in SeqsUpTo({Tok("Bang"), Tok("Minus")}, n),
        prim \in {NumTok(5), Tok("True"), Tok("False"), Tok("Nil")}}

MaxAround == 1

\* token lists with an Eof token before the last one: at most n tokens,
\* Eof, at most n tokens
EofInsideInputs(n) ==
    {a \o <<Tok("Eof")>> \o b :
        a \in SeqsUpTo(TokenAlphabet, n), b \in SeqsUpTo(TokenAlphabet, n)}

\* the token list the scanner hands over: ts and the Eof token it appends
Scanned(ts) == ts \o <<Tok("Eof")>>

InitParse ==
    /\ pc = "parse"
    /\ \/ \E ts \in SeqsUpTo(TokenAlphabet, MaxTokens) : parser = Parser_new(Scanned(ts))
       \/ \E ts \in ChainInputs(MaxNum) : parser = Parser_new(Scanned(ts))
       \/ \E ts \in RecoveryInputs(MaxBad) : parser = Parser_new(Scanned(ts))
       \/ \E ts \in PrefixInputs(MaxPrefix) : parser = Parser_new(Scanned(ts))
       \/ \E ts \in EofInsideInputs(MaxAround) : parser = Parser_new(Scanned(ts))
    /\ scanner = Scanner_new(<<>>)
    /\ statements = <<>>
    /\ caught = <<>>
    /\ ip = 0
    /\ value = Pending
    /\ stdout = <<>>
    /\ stderr = <<>>
    /\ result = Pending
    /\ returned = <<>>

Running(p) == [tokens |-> p.tokens, current |-> p.current, panic |-> FALSE]

Struct(P) == [tokens |-> P.tokens, current |-> P.current]

\* one iteration of the loop of parse: declaration(), then push the
\* statement or synchronize
\* the match on what declaration returned: d is the result, P the struct
\* the arm leaves
ParseArm(d, P) ==
    /\ parser' = Struct(P)
    /\ statements' = IF d.r.ok THEN Append(statements, d.r.v) ELSE statements
    /\ caught' = IF ~d.r.ok /\ ~d.P.panic
                 THEN Append(caught, [e |-> d.r.e, first |-> parser.current,
                                      at |-> d.P.current])
                 ELSE caught
    /\ pc' = IF P.panic THEN "panicked" ELSE "parse"
    /\ result' = IF P.panic THEN Panicked ELSE result

ParseMatch(d) == ParseArm(d, IF d.r.ok THEN d.P ELSE synchronize(d.P))

ParseDeclaration ==
    /\ pc = "parse"
    /\ OutOfRange(parser) \/ ~p_is_at_end(parser)
    /\ ParseMatch(IF OutOfRange(parser)
                  THEN Return([Running(parser) EXCEPT !.panic = TRUE], Err(Unwind))
                  ELSE declaration(Running(parser)))
    /\ UNCHANGED <<scanner, ip, value, stdout, stderr, returned>>

\* the end of parse: Ok(statements)
ParseReturn ==
    /\ pc = "parse"
    /\ ~OutOfRange(parser)
    /\ p_is_at_end(parser)
    /\ result' = Ok(statements)
    /\ pc' = "parsed"
    /\ UNCHANGED <<scanner, parser, statements, caught, ip, value, stdout, stderr, returned>>

NextParse == ParseDeclaration \/ ParseReturn

SpecParse == InitParse /\ [][NextParse]_vars

(***************************************************************************)
(* interpreter.rs                                                          *)
(***************************************************************************)
\* is_equal without its (Nil, Nil) arm
is_equal_NoNilArm(a, b) ==
    CASE a.tag = "Number" /\ b.tag = "Number" -> NumEq(a, b)
      [] a.tag = "String" /\ b.tag = "String" -> a.s = b.s
      [] a.tag = "Bool" /\ b.tag = "Bool" -> a.b = b.b
      [] OTHER -> FALSE

is_equal(a, b) ==
    CASE a.tag = "Nil" /\ b.tag = "Nil" -> TRUE
      [] a.tag = "Number" /\ b.tag = "Number" -> NumEq(a, b)
      [] a.tag = "String" /\ b.tag = "String" -> a.s = b.s
      [] a.tag = "Bool" /\ b.tag = "Bool" -> a.b = b.b
      [] OTHER -> FALSE

Numbers(l, r) == l.tag = "Number" /\ r.tag = "Number"

Strings(l, r) == l.tag = "String" /\ r.tag = "String"

\* the Plus arm with a third case that joins the texts of the operands
\* when one of them is a String
plus_arm_Stringify(t, l, r) ==
    IF Numbers(l, r) THEN Ok(NumAdd(l, r))
    ELSE IF Strings(l, r) THEN Ok(String(l.s \o r.s))
    ELSE IF l.tag = "String" \/ r.tag = "String" THEN Ok(String(Display(l) \o Display(r)))
    ELSE Err(Error_runtime_error("Expected numbers or strings for Plus operation: " \o t))

\* the arm TokenType::Plus => match (l, r)
plus_arm(t, l, r) ==
    IF Numbers(l, r) THEN Ok(NumAdd(l, r))
    ELSE IF Strings(l, r) THEN Ok(String(l.s \o r.s))
    ELSE Err(Error_runtime_error("Expected numbers or strings for Plus operation: " \o t))

\* the match on operator.type_ of visit_binary_expr, on operand values
binary_match(operator, l, r) ==
    LET t == operator.type_
    IN CASE t = "Minus" ->
                IF Numbers(l, r) THEN Ok(NumSub(l, r))
                ELSE Err(Error_runtime_error("Expected numbers for Minus operation: " \o t))
         [] t = "Slash" ->
                IF Numbers(l, r) THEN Ok(NumDiv(l, r))
                ELSE Err(Error_runtime_error("Expected numbers for Slash operation: " \o t))
         [] t = "Star" ->
                IF Numbers(l, r) THEN Ok(NumMul(l, r))
                ELSE Err(Error_runtime_error("Expected numbers for Star operation: " \o t))
         [] t = "Plus" -> plus_arm(t, l, r)
         [] t = "Greater" ->
                IF Numbers(l, r) THEN Ok(Bool(NumLess(r, l)))
                ELSE Err(Error_runtime_error("Expected numbers for Greater operation: " \o t))
         [] t = "GreaterEqual" ->
                IF Numbers(l, r) THEN Ok(Bool(NumLess(r, l) \/ NumEq(l, r)))
                ELSE Err(Error_runtime_error(
                        "Expected numbers for GreaterEqual operation: " \o t))
         [] t = "Less" ->
                IF Numbers(l, r) THEN Ok(Bool(NumLess(l, r)))
                ELSE Err(Error_runtime_error("Expected numbers for Less operation: " \o t))
         [] t = "LessEqual" ->
                IF Numbers(l, r) THEN Ok(Bool(NumLess(l, r) \/ NumEq(l, r)))
                ELSE Err(Error_runtime_error("Expected numbers for Less operation: " \o t))
         [] t = "BangEqual" -> Ok(Bool(~is_equal(l, r)))
         [] t = "EqualEqual" -> Ok(Bool(is_equal(l, r)))
         [] OTHER -> Err(Error_runtime_error("Unexpected token type: " \o t))

\* the match on operator.type_ of visit_unary_expr, on the operand value
unary_match(operator, r) ==
    LET t == operator.type_
    IN CASE t = "Bang" ->
                IF r.tag = "Bool" THEN Ok(Bool(~r.b))
                ELSE Err(Error_runtime_error("Operand must be a bool: " \o t))
         [] t = "Minus" ->
                IF r.tag = "Number" THEN Ok(NumNeg(r))
                ELSE Err(Error_runtime_error("Operand must be a number: " \o t))
         [] OTHER -> Err(Error_runtime_error("Unexpected token type: " \o t))

RECURSIVE evaluate(_)

visit_binary_expr(left, operator, right) ==
    LET l == evaluate(left)
    IN IF ~l.ok THEN l
       ELSE LET r == evaluate(right)
            IN IF ~r.ok THEN r ELSE binary_match(operator, l.v, r.v)

visit_grouping_expr(expression_) == evaluate(expression_)

visit_literal_expr(v) == Ok(v)

visit_unary_expr(operator, right) ==
    LET r == evaluate(right)
    IN IF ~r.ok THEN r ELSE unary_match(operator, r.v)

\* Expr::accept with the interpreter as the visitor
evaluate(expr) ==
    CASE expr.type = "Binary" -> visit_binary_expr(expr.left, expr.operator, expr.right)
      [] expr.type = "Grouping" -> visit_grouping_expr(expr.expression)
      [] expr.type = "Literal" -> visit_literal_expr(expr.value)
      [] expr.type = "Unary" -> visit_unary_expr(expr.operator, expr.right)

\* The statement visitors yield [r |-> Ok(Unit) or Err(..), out |-> the
\* output channel they leave, value |-> what evaluate returned,
\* panic |-> whether todo!() was reached].
visit_expression_stmt(expression_, out) ==
    LET v == evaluate(expression_)
    IN [r |-> IF v.ok THEN Ok(Unit) ELSE v, out |-> out, value |-> v, panic |-> FALSE]

visit_print_stmt(expression_, out) ==
    LET v == evaluate(expression_)
    IN [r |-> IF v.ok THEN Ok(Unit) ELSE v,
        out |-> IF v.ok THEN Append(out, Display(v.v)) ELSE out,
        value |-> v, panic |-> FALSE]

\* visit_var_stmt returning Ok(()) without doing anything
visit_var_stmt_Skip(name, initializer, out) ==
    [r |-> Ok(Unit), out |-> out, value |-> Pending, panic |-> FALSE]

visit_var_stmt(name, initializer, out) ==
    [r |-> Err(Unwind), out |-> out, value |-> Pending, panic |-> TRUE]

\* Stmt::accept with the interpreter as the visitor
exectute(stmt, out) ==
    CASE stmt.type = "Expression" -> visit_expression_stmt(stmt.expression, out)
      [] stmt.type = "Print" -> visit_print_stmt(stmt.expression, out)
      [] stmt.type = "Var" -> visit_var_stmt(stmt.name, stmt.initializer, out)

(***************************************************************************)
(* SpecInterp: Interpreter::new().interpret(statements)                    *)
(***************************************************************************)
MaxStmts == 3

MaxVal == 2

Values ==
    {Nil, Bool(TRUE), Bool(FALSE), String("a"), String("b")} \cup
    {Number(n, 1) : n \in 0..MaxVal}

OpTok(t) == Token(t, IF t \in DOMAIN Lexeme THEN Lexeme[t] ELSE t, Nil, 1)

Literals == {Expr_Literal(v) : v \in Values}

\* every operator applied to literals; the operator token of a node can be
\* any token, since the tree types are public
FlatExprs ==
    Literals \cup
    {Expr_Grouping(e) : e \in Literals} \cup
    {Expr_Unary(OpTok(t), e) : t \in {"Bang", "Minus", "Plus"}, e \in Literals} \cup
    {Expr_Binary(l, OpTok(t), r) : l \in Literals, t \in BinaryOps \cup {"Bang", "Equal"},
                                   r \in Literals}

Operands ==
    {Expr_Literal(Number(1, 1)),
     Expr_Grouping(Expr_Literal(String("a"))),
     Expr_Unary(OpTok("Minus"), Expr_Literal(Nil)),
     Expr_Unary(OpTok("Bang"), Expr_Literal(String("a"))),
     Expr_Binary(Expr_Literal(Number(1, 1)), OpTok("Plus"), Expr_Literal(Number(1, 1))),
     Expr_Binary(Expr_Literal(Number(0, 1)), OpTok("Slash"), Expr_Literal(Number(0, 1)))}

NestedExprs ==
    {Expr_Binary(l, OpTok(t), r) : l \in Operands, t \in {"Plus", "EqualEqual", "Less"},
                                   r \in Operands}

Exprs == FlatExprs \cup NestedExprs

SomeStmts ==
    {Stmt_Print(Expr_Literal(Number(1, 1))),
     Stmt_Print(Expr_Literal(String("a"))),
     Stmt_Print(Expr_Literal(Nil)),
     Stmt_Print(Expr_Binary(Expr_Literal(Number(1, 1)), OpTok("Plus"),
                            Expr_Literal(String("a")))),
     Stmt_Expression(Expr_Literal(Bool(TRUE))),
     Stmt_Expression(Expr_Unary(OpTok("Minus"), Expr_Literal(Nil))),
     Stmt_Var(IdentTok, NoInitializer),
     Stmt_Var(IdentTok, Some(Expr_Unary(OpTok("Minus"), Expr_Literal(Nil))))}

InterpInputs ==
    {<<Stmt_Print(e)>> : e \in Exprs} \cup {<<Stmt_Expression(e)>> : e \in Exprs} \cup
    SeqsUpTo(SomeStmts, MaxStmts)

InitInterp ==
    /\ pc = "interpret"
    /\ statements \in InterpInputs
    /\ scanner = Scanner_new(<<>>)
    /\ parser = NoParser
    /\ caught = <<>>
    /\ ip = 0
    /\ value = Pending
    /\ stdout = <<>>
    /\ stderr = <<>>
    /\ result = Pending
    /\ returned = <<>>

\* an iteration that goes on to the next statement after an Err
Exectute_KeepGoing ==
    /\ pc = "interpret"
    /\ ip < Len(statements)
    /\ LET x == exectute(statements[ip + 1], stdout)
       IN /\ ip' = ip + 1
          /\ value' = x.value
          /\ stdout' = x.out
          /\ pc' = IF x.panic THEN "panicked" ELSE "interpret"
          /\ result' = IF x.panic THEN Panicked ELSE result
    /\ UNCHANGED <<scanner, parser, statements, caught, stderr, returned>>

\* one iteration of the loop of interpret
Exectute ==
    /\ pc = "interpret"
    /\ ip < Len(statements)
    /\ LET x == exectute(statements[ip + 1], stdout)
       IN /\ ip' = ip + 1
          /\ value' = x.value
          /\ stdout' = x.out
          /\ pc' = IF x.panic THEN "panicked" ELSE IF x.r.ok THEN "interpret" ELSE "interpreted"
          /\ result' = IF x.panic THEN Panicked ELSE IF x.r.ok THEN result ELSE x.r
    /\ UNCHANGED <<scanner, parser, statements, caught, stderr, returned>>

\* the end of interpret: Ok(())
InterpretReturn ==
    /\ pc = "interpret"
    /\ ip = Len(statements)
    /\ result' = Ok(Unit)
    /\ pc' = "interpreted"
    /\ UNCHANGED <<scanner, parser, statements, caught, ip, value, stdout, stderr, returned>>

NextInterp == Exectute \/ InterpretReturn

SpecInterp == InitInterp /\ [][NextInterp]_vars

(***************************************************************************)
(* Properties of the parser                                                *)
(***************************************************************************)

\* C1: a statement enters the sequence parse returns only when its ';' was
\* consumed: whenever parse pushes a statement, the token it has just
\* consumed is ';' (a statement not followed by ';' raises a parse error
\* instead and is not in the sequence).
C1_MissingSemicolonIsAnError ==
    [][statements' # statements => previous(parser').type_ = "Semicolon"]_vars

\* ts is one statement of the grammar of spec section 4.3: declaration
\* accepts it, uses all of it, and ends by consuming the ';'
WellFormed(ts) ==
    LET d == declaration(Running(Parser_new(ts \o <<Tok("Eof")>>)))
    IN /\ d.r.ok
       /\ d.P.current = Len(ts)
       /\ ts[Len(ts)].type_ = "Semicolon"

\* ts is one malformed statement: it is not empty, it reaches no further
\* than a statement boundary (a ';' only as its last token, a keyword that
\* starts a statement only as its first) and the grammar rejects it
OneMalformed(ts) ==
    /\ ts # <<>>
    /\ \A i \in 1..Len(ts) - 1 : ts[i].type_ # "Semicolon"
    /\ \A i \in 2..Len(ts) : ts[i].type_ \notin StatementStart
    /\ ~WellFormed(ts)

\* the input of parse without its Eof
Input == SubSeq(parser.tokens, 1, Len(parser.tokens) - 1)

\* the input is `bad` followed by `good`
SplitsInto(bad, good) == Input = bad \o good

StatementOf(good) == declaration(Running(Parser_new(good \o <<Tok("Eof")>>))).r.v

\* C2: when the input is one malformed statement followed by a well-formed
\* statement that starts with 'print' or 'var', parse returns exactly the
\* well-formed statement: only the malformed one is dropped.
C2_OneStatementPerMistake ==
    pc = "parsed" =>
        \A good \in GoodStatements :
            \A n \in 1..Len(Input) :
                LET bad == SubSeq(Input, 1, n)
                IN SplitsInto(bad, good) /\ OneMalformed(bad)
                    => result = Ok(<<StatementOf(good)>>)

\* the line parser_error writes for the i-th error parse has caught
DiagnosticOf(i) ==
    parser_error(<<>>, parser.tokens[caught[i].at + 1], caught[i].e.message)[1]

\* C3: the error channel holds exactly one diagnostic for each statement
\* parse has abandoned, made of the message, the line and the lexeme (or
\* "at end") of the offending token, and nothing else.
C3_OneDiagnosticPerAbandonedStatement ==
    /\ Len(stderr) = Len(caught)
    /\ \A i \in 1..Len(caught) : stderr[i] = DiagnosticOf(i)

(***************************************************************************)
(* Properties of the scanner                                               *)
(***************************************************************************)
EofCount(tokens) == Cardinality({i \in 1..Len(tokens) : tokens[i].type_ = "Eof"})

\* C4: the token sequence scan_tokens returns on a fresh Scanner has
\* exactly one Eof token, as its last element; for the empty source it is
\* the Eof token alone.
C4_OneEofLast ==
    pc = "scanned" /\ Len(returned) = 1 =>
        /\ result.ok
        /\ result.v # <<>>
        /\ result.v[Len(result.v)].type_ = "Eof"
        /\ EofCount(result.v) = 1
        /\ scanner.source = <<>> => result.v = <<Token("Eof", "", Nil, 1)>>

C4_Witness ==
    /\ pc = "scanned"
    /\ Len(returned) = 1
    /\ Len(result.v) >= 3
    /\ \E i \in 1..Len(scanner.source) : scanner.source[i] \in MultiByte

\* C5: scan_tokens never aborts: no source makes it panic.
C5_ScanNeverFails == pc # "panicked"

Newlines(chars) == Cardinality({i \in 1..Len(chars) : chars[i] = "\n"})

Ascii(source) == \A i \in 1..Len(source) : source[i] \notin MultiByte

\* C6: the line counter is 1 plus the number of newline characters scanned
\* so far (between tokens, after a comment, inside a string), and so is the
\* line of the token emitted last; the Eof token carries 1 plus the number
\* of newlines of the whole source.  (Stated for sources of one-byte
\* characters, where current counts the characters scanned.)
C6_LineCountsNewlines ==
    Ascii(scanner.source) /\ pc \in {"scan_tokens", "scanned"} =>
        /\ scanner.line = 1 + Newlines(SubSeq(scanner.source, 1, scanner.current))
        /\ pc = "scanned" =>
              result.v[Len(result.v)].line = 1 + Newlines(scanner.source)

(***************************************************************************)
(* Properties of the interpreter                                           *)
(***************************************************************************)
\* statement k evaluates an expression, and the evaluation fails
Fails(k) ==
    /\ statements[k].type \in {"Expression", "Print"}
    /\ ~evaluate(statements[k].expression).ok

\* the lines the print statements among the first n statements write
RECURSIVE PrintOutput(_)
PrintOutput(n) ==
    IF n = 0 THEN <<>>
    ELSE IF statements[n].type = "Print"
         THEN Append(PrintOutput(n - 1), Display(evaluate(statements[n].expression).v))
         ELSE PrintOutput(n - 1)

\* C7: interpret executes the statements in order and stops at the first
\* runtime failure: while it runs, the output is the print output of the
\* statements executed and none of them failed; when it returns, either
\* statement ip is the first that fails, the output is that of statements
\* 1..ip-1 and the failure is returned, or no statement fails, all were
\* executed and Ok(()) is returned.
C7_StopsAtFirstFailure ==
    /\ pc = "interpret" =>
          /\ \A k \in 1..ip : ~Fails(k)
          /\ stdout = PrintOutput(ip)
    /\ pc = "interpreted" =>
          IF \E k \in 1..Len(statements) : Fails(k)
          THEN /\ ip >= 1
               /\ Fails(ip)
               /\ \A k \in 1..ip - 1 : ~Fails(k)
               /\ stdout = PrintOutput(ip - 1)
               /\ result = Err(evaluate(statements[ip].expression).e)
          ELSE /\ ip = Len(statements)
               /\ stdout = PrintOutput(ip)
               /\ result = Ok(Unit)

C7_Witness ==
    /\ pc = "interpreted"
    /\ ~result.ok
    /\ ip = 2
    /\ Len(statements) = 3
    /\ stdout # <<>>

\* the expression of the statement executed last, when it is a Binary node
\* whose operands both evaluate to a value
LastBinary ==
    /\ pc # "panicked"
    /\ ip >= 1
    /\ statements[ip].expression.type = "Binary"
    /\ evaluate(statements[ip].expression.left).ok
    /\ evaluate(statements[ip].expression.right).ok

LastOp == statements[ip].expression.operator.type_

LastLeft == evaluate(statements[ip].expression.left).v

LastRight == evaluate(statements[ip].expression.right).v

Arithmetic == {"Minus", "Slash", "Star", "Plus"}

Comparisons == {"Greater", "GreaterEqual", "Less", "LessEqual"}

\* C8: for - / * + and > >= < <= on two operand values, evaluation yields
\* a value exactly when both are Numbers, or, for +, both are Strings: a
\* Number for arithmetic, the concatenation for two Strings, a Bool for a
\* comparison; every other combination yields a runtime error.
C8_BinaryOperandTypes ==
    LastBinary /\ LastOp \in Arithmetic \cup Comparisons =>
        LET bothNumbers == LastLeft.tag = "Number" /\ LastRight.tag = "Number"
            bothStrings == LastLeft.tag = "String" /\ LastRight.tag = "String"
        IN /\ value.ok <=> (bothNumbers \/ (LastOp = "Plus" /\ bothStrings))
           /\ value.ok /\ LastOp \in Arithmetic /\ bothNumbers => value.v.tag = "Number"
           /\ value.ok /\ bothStrings => value.v = String(LastLeft.s \o LastRight.s)
           /\ value.ok /\ LastOp \in Comparisons => value.v.tag = "Bool"
           /\ ~value.ok => value.e.kind = "RuntimeError" /\ result = value

C8_Witness ==
    /\ LastBinary
    /\ LastOp = "Plus"
    /\ LastLeft.tag = "Number"
    /\ LastRight.tag = "String"
    /\ ~value.ok

\* equality of two values of one runtime type, by value
SameValue(a, b) ==
    CASE a.tag = "Nil" -> TRUE
      [] a.tag = "Bool" -> a.b = b.b
      [] a.tag = "String" -> a.s = b.s
      [] a.tag = "Number" -> NumEq(a, b)

\* C9: == and != yield a Bool for every pair of operand values, never an
\* error; == is true for Nil and Nil, false for values of different
\* runtime types and equality by value within one type; != yields the
\* negation of what == yields for the same operands.
C9_EqualityIsTotal ==
    LastBinary /\ LastOp \in {"EqualEqual", "BangEqual"} =>
        LET equal == LastLeft.tag = LastRight.tag /\ SameValue(LastLeft, LastRight)
        IN /\ value.ok
           /\ value.v.tag = "Bool"
           /\ LastOp = "EqualEqual" => value.v.b = equal
           /\ LastOp = "BangEqual" => value.v.b = ~equal

C9_Witness ==
    /\ LastBinary
    /\ LastOp = "BangEqual"
    /\ LastLeft.tag = "Nil"
    /\ LastRight.tag = "Nil"
    /\ value = Ok(Bool(FALSE))

(***************************************************************************)
(* Shape of the trees                                                      *)
(***************************************************************************)
\* the grammar level of a binary operator: equality 1, comparison 2,
\* term 3, factor 4
Level(t) ==
    CASE t \in {"BangEqual", "EqualEqual"} -> 1
      [] t \in Comparisons -> 2
      [] t \in {"Minus", "Plus"} -> 3
      [] t \in {"Slash", "Star"} -> 4

Lit(tok) == Expr_Literal(tok.literal)

\* the tree of  x o1 b o2 c  for an already built left operand x
ChainTree(x, o1, b, o2, c) ==
    IF Level(o1.type_) >= Level(o2.type_)
    THEN Expr_Binary(Expr_Binary(x, o1, Lit(b)), o2, Lit(c))
    ELSE Expr_Binary(x, o1, Expr_Binary(Lit(b), o2, Lit(c)))

IsChain(ts) ==
    /\ Len(ts) = 6
    /\ ts[1].type_ = "Number" /\ ts[3].type_ = "Number" /\ ts[5].type_ = "Number"
    /\ ts[2].type_ \in BinaryOps /\ ts[4].type_ \in BinaryOps
    /\ ts[6].type_ = "Semicolon"

\* C10: parse builds the tree of the grammar for  a o1 b o2 c ;  and for
\* - a o1 b o2 c ;  : operators of one level fold to the left, an operator
\* of a higher level binds first, and a leading '-' binds to a alone.  So
\* 1 - 2 - 3 is (1 - 2) - 3 and evaluates to -4, and 2 + 3 * 4 is
\* 2 + (3 * 4) and evaluates to 14.
C10_PrecedenceAndAssociativity ==
    pc = "parsed" =>
        /\ IsChain(Input) =>
              result = Ok(<<Stmt_Expression(
                  ChainTree(Lit(Input[1]), Input[2], Input[3], Input[4], Input[5]))>>)
        /\ Len(Input) = 7 /\ Input[1].type_ = "Minus" /\ IsChain(Tail(Input)) =>
              result = Ok(<<Stmt_Expression(
                  ChainTree(Expr_Unary(Input[1], Lit(Input[2])),
                            Input[3], Input[4], Input[5], Input[6]))>>)
        /\ Input = Chain(1, "Minus", 2, "Minus", 3) =>
              evaluate(result.v[1].expression) = Ok(Number(-4, 1))
        /\ Input = Chain(2, "Plus", 3, "Star", 4) =>
              evaluate(result.v[1].expression) = Ok(Number(14, 1))

C10_Witness ==
    /\ pc = "parsed"
    /\ Input = Chain(1, "Minus", 2, "Minus", 3)
    /\ Len(result.v) = 1
    /\ result.v[1].expression.left.type = "Binary"

(***************************************************************************)
(* Variable declarations                                                   *)
(***************************************************************************)
HasVar == \E k \in 1..Len(statements) : statements[k].type = "Var"

\* the position of the first VarStatement
FirstVar ==
    CHOOSE k \in 1..Len(statements) :
        /\ statements[k].type = "Var"
        /\ \A j \in 1..k - 1 : statements[j].type # "Var"

\* C11: a sequence with a VarStatement never makes interpret return
\* success.  The statements before the first VarStatement are executed in
\* order (up to the first runtime failure, which interpret returns); when
\* none of them fails the run reaches the VarStatement and panics there
\* with the output of the statements before it and nothing else: the
\* VarStatement and the statements after it are without effect.
C11_VarStatementFailsLoudly ==
    HasVar =>
        /\ result # Ok(Unit)
        /\ ip <= FirstVar
        /\ pc = "interpret" => ip < FirstVar
        /\ pc = "interpreted" =>
              /\ ~result.ok
              /\ ip < FirstVar
              /\ Fails(ip)
        /\ pc = "panicked" =>
              /\ ip = FirstVar
              /\ result = Panicked
              /\ \A j \in 1..FirstVar - 1 : ~Fails(j)
              /\ stdout = PrintOutput(FirstVar - 1)
        /\ (\A j \in 1..FirstVar - 1 : ~Fails(j)) => pc # "interpreted"

C11_Witness ==
    /\ pc = "panicked"
    /\ Len(statements) = 3
    /\ FirstVar = 2
    /\ statements[3].type = "Print"
    /\ stdout # <<>>

(***************************************************************************)
(* What parse returns                                                      *)
(***************************************************************************)
\* the statements of the token list of P that parse without error, in
\* order: a statement during which an error is raised, the error of a
\* failed consume of ';' included, is abandoned and the cursor is
\* synchronized
RECURSIVE ErrorFree(_, _)
ErrorFree(P, acc) ==
    IF p_is_at_end(P) THEN acc
    ELSE LET d == declaration(P)
         IN IF d.r.ok /\ previous(d.P).type_ = "Semicolon"
            THEN ErrorFree(d.P, Append(acc, d.r.v))
            ELSE ErrorFree(synchronize(d.P), acc)

\* C12: parse never fails, and the sequence it returns holds exactly the
\* statements of the input that parsed without error, in input order.
C12_ParseIsBestEffort ==
    /\ pc # "panicked"
    /\ pc = "parsed" => result = Ok(ErrorFree(Running(Parser_new(parser.tokens)), <<>>))

(***************************************************************************)
(* Channels                                                                *)
(***************************************************************************)
\* C13: diagnostics go to the error channel and never to the normal
\* output channel, which holds only the text of the print statements
\* executed: as long as no statement has been executed (ip = 0), whatever
\* the scanner has met in the source, the normal output channel is empty.
C13_DiagnosticsOnErrorChannel == ip = 0 => stdout = <<>>

(***************************************************************************)
(* Recovery                                                                *)
(***************************************************************************)
\* with the cursor at j, synchronize has nothing more to discard: the
\* cursor is at Eof, or the token consumed last is ';', or the next token
\* starts a statement
Stops(j) ==
    \/ parser.tokens[j + 1].type_ = "Eof"
    \/ j >= 1 /\ parser.tokens[j].type_ = "Semicolon"
    \/ parser.tokens[j + 1].type_ \in StatementStart

\* the cursor once the errant token at c is discarded; Eof is never passed
Discarded(c) == IF parser.tokens[c + 1].type_ = "Eof" THEN c ELSE c + 1

\* the error parse caught last
LastCaught == caught[Len(caught)]

\* C14: when parse catches an error raised with the cursor at c,
\* synchronize discards the token at c and leaves the cursor at the first
\* position from there on where the last token consumed is ';', or the
\* next token is one of class, fun, var, for, if, while, print, return, or
\* the cursor is at Eof; the cursor stays inside the token list.
C14_SynchronizeStopsAtBoundary ==
    [][caught' # caught =>
          /\ parser'.current >= Discarded(LastCaught'.at)
          /\ parser'.current < Len(parser.tokens)
          /\ Stops(parser'.current)
          /\ \A j \in Discarded(LastCaught'.at)..parser'.current - 1 : ~Stops(j)]_vars

C14_Witness ==
    /\ pc = "parse"
    /\ Len(caught) = 1
    /\ statements = <<>>
    /\ parser.current >= LastCaught.at + 2
    /\ parser.tokens[parser.current].type_ # "Semicolon"
    /\ parser.tokens[parser.current + 1].type_ \in StatementStart

(***************************************************************************)
(* Operators of the trees                                                  *)
(***************************************************************************)
\* every Unary node of expr has the operator '!' or '-' and every Binary
\* node one of the ten binary operators
RECURSIVE OperatorsPermitted(_)
OperatorsPermitted(expr) ==
    CASE expr.type = "Binary" ->
            /\ expr.operator.type_ \in BinaryOps
            /\ OperatorsPermitted(expr.left)
            /\ OperatorsPermitted(expr.right)
      [] expr.type = "Unary" ->
            /\ expr.operator.type_ \in {"Bang", "Minus"}
            /\ OperatorsPermitted(expr.right)
      [] expr.type = "Grouping" -> OperatorsPermitted(expr.expression)
      [] expr.type = "Literal" -> TRUE

\* the expressions of the statements parse has pushed
ParsedExprs ==
    {statements[i].expression :
        i \in {j \in 1..Len(statements) : statements[j].type \in {"Expression", "Print"}}}
    \cup
    {statements[i].initializer.x :
        i \in {j \in 1..Len(statements) :
                    statements[j].type = "Var" /\ statements[j].initializer.some}}

\* the messages of the evaluator's last match arms, for the token types of
\* the input
UnexpectedTokenType ==
    {"Unexpected token type: " \o parser.tokens[i].type_ : i \in 1..Len(parser.tokens)}

\* C15: in every tree the parser produces the operator of a Unary node is
\* '!' or '-' and the operator of a Binary node is one of
\* != == < <= > >= - + / *, and evaluating the tree yields a value or an
\* operand-type error, never the error "Unexpected token type".
C15_OperatorsPermitted ==
    \A e \in ParsedExprs :
        /\ OperatorsPermitted(e)
        /\ evaluate(e).ok \/ evaluate(e).e.message \notin UnexpectedTokenType

C15_Witness ==
    /\ pc = "parsed"
    /\ Len(statements) = 1
    /\ statements[1].type = "Expression"
    /\ statements[1].expression.type = "Binary"
    /\ statements[1].expression.left.type = "Binary"
    /\ statements[1].expression.left.left.type = "Unary"
    /\ ~evaluate(statements[1].expression).ok

(***************************************************************************)
(* Prefix operators                                                        *)
(***************************************************************************)
\* ts is  op .. op primary ;  with prefix operators '!' and '-' and a
\* literal primary
IsPrefixChain(ts) ==
    /\ Len(ts) >= 2
    /\ ts[Len(ts)].type_ = "Semicolon"
    /\ ts[Len(ts) - 1].type_ \in {"Number", "True", "False", "Nil"}
    /\ \A i \in 1..Len(ts) - 2 : ts[i].type_ \in {"Bang", "Minus"}

PrimaryValue(tok) ==
    CASE tok.type_ = "True" -> Bool(TRUE)
      [] tok.type_ = "False" -> Bool(FALSE)
      [] tok.type_ = "Nil" -> Nil
      [] tok.type_ = "Number" -> tok.literal

\* the nesting of  op .. op primary : the first operator is the outermost
RECURSIVE PrefixTree(_)
PrefixTree(ts) ==
    IF ts[1].type_ \in {"Bang", "Minus"}
    THEN Expr_Unary(ts[1], PrefixTree(Tail(ts)))
    ELSE Expr_Literal(PrimaryValue(ts[1]))

\* the value of  op .. op primary : the operators are applied from the
\* innermost on; '!' of a value that is no Bool and '-' of a value that is
\* no Number fail
RECURSIVE PrefixValue(_)
PrefixValue(ts) ==
    IF ts[1].type_ \notin {"Bang", "Minus"} THEN [ok |-> TRUE, v |-> PrimaryValue(ts[1])]
    ELSE LET r == PrefixValue(Tail(ts))
         IN IF ~r.ok THEN r
            ELSE IF ts[1].type_ = "Bang" /\ r.v.tag = "Bool"
                 THEN [ok |-> TRUE, v |-> Bool(~r.v.b)]
            ELSE IF ts[1].type_ = "Minus" /\ r.v.tag = "Number"
                 THEN [ok |-> TRUE, v |-> Number(0 - r.v.num, r.v.den)]
            ELSE [ok |-> FALSE]

\* C16: n prefix operators and a primary parse as n nested Unary nodes,
\* the first operator outermost; evaluation applies them from the
\* innermost on, so - - 5 is Unary(-, Unary(-, Literal(5))) and evaluates
\* to 5; '!' of a non-Bool and '-' of a non-Number is a runtime error.
C16_PrefixChains ==
    pc = "parsed" /\ IsPrefixChain(Input) =>
        LET tree == PrefixTree(SubSeq(Input, 1, Len(Input) - 1))
            expected == PrefixValue(SubSeq(Input, 1, Len(Input) - 1))
            got == evaluate(tree)
        IN /\ result = Ok(<<Stmt_Expression(tree)>>)
           /\ got.ok = expected.ok
           /\ got.ok => got.v = expected.v
           /\ ~got.ok => got.e.kind = "RuntimeError"
           /\ Input = <<Tok("Minus"), Tok("Minus"), NumTok(5), Tok("Semicolon")>> =>
                 /\ tree = Expr_Unary(Tok("Minus"),
                                      Expr_Unary(Tok("Minus"), Expr_Literal(Number(5, 1))))
                 /\ got = Ok(Number(5, 1))

C16_Witness ==
    /\ pc = "parsed"
    /\ Input = <<Tok("Minus"), Tok("Minus"), NumTok(5), Tok("Semicolon")>>
    /\ Len(result.v) = 1
    /\ evaluate(result.v[1].expression) = Ok(Number(5, 1))

(***************************************************************************)
(* Termination of parse                                                    *)
(***************************************************************************)
\* C17: on a token list that ends in Eof parse terminates.  The cursor
\* stays inside the token list (peek never reads past the Eof token and
\* previous is never called with current = 0: either would panic), and
\* every iteration of the loop, whether it pushes a statement or
\* synchronizes, moves the cursor forward by at least one token: the
\* iterations made so far are never more than the tokens passed, so the
\* loop ends after at most Len(tokens) - 1 iterations.
C17_ParseTerminates ==
    /\ [](/\ pc # "panicked"
          /\ 0 <= parser.current
          /\ parser.current < Len(parser.tokens)
          /\ Len(statements) + Len(caught) <= parser.current)
    /\ [][pc' = "parse" => parser'.current > parser.current]_vars

C17_Witness ==
    /\ pc = "parsed"
    /\ Len(caught) >= 1
    /\ Len(statements) >= 1
    /\ parser.current = Len(parser.tokens) - 1
    /\ parser.current >= 4

(***************************************************************************)
(* Repeated scans                                                          *)
(***************************************************************************)
\* C18: a second call of scan_tokens on the same Scanner returns the token
\* list the first call returned, with exactly one Eof token, the last.
C18_ScanTokensRepeatable ==
    Len(returned) >= 2 =>
        /\ returned[2] = returned[1]
        /\ EofCount(returned[2]) = 1
        /\ returned[2][Len(returned[2])].type_ = "Eof"

====
